---- MODULE Spec2Model ----
(***************************************************************************)
(* A model of numba/core/event.py: the event-kind guard, the process-wide  *)
(* registry of listeners, broadcast, the built-in Timing and Recording     *)
(* listeners, the emission API (start_event, end_event, mark_event) and    *)
(* the scoped installers (install_timer, install_recorder).                *)
(*                                                                         *)
(* One thread of control runs the API.  The `with` blocks that are open    *)
(* form a stack of frames; an exception in flight is held in exc and       *)
(* unwinds the stack one frame at a time until some body catches it.       *)
(***************************************************************************)
EXTENDS Integers, Sequences, FiniteSets, TLC

(***************************************************************************)
(* Bounds of the model.                                                    *)
(***************************************************************************)
MaxReg == 3      \* registry entries, all kinds together
MaxStack == 3    \* open `with` blocks
MaxNest == 2     \* open mark_event blocks, where no other block is opened
MaxClock == 2    \* readings of the clock
MaxBuf == 4      \* entries of a RecordingListener's buffer
MaxDepth == 2    \* |_depth| of a TimingListener

(***************************************************************************)
(* Event kinds are strings; a string is the sequence of its characters.    *)
(***************************************************************************)
ReservedPrefix == <<"n", "u", "m", "b", "a", ":">>
K_compiler_lock == ReservedPrefix \o <<"c", "o", "m", "p", "i", "l", "e", "r", "_", "l", "o", "c", "k">>
K_compile == ReservedPrefix \o <<"c", "o", "m", "p", "i", "l", "e">>
K_bogus == ReservedPrefix \o <<"x">>
K_user == <<"u", "s", "r">>

_builtin_kinds == {K_compiler_lock, K_compile}

\* The kinds the callers of the API pass.
Kinds == {K_compile, K_bogus, K_user}

startswith(s, p) == Len(s) >= Len(p) /\ SubSeq(s, 1, Len(p)) = p

\* The result of a call: the exception it raised ("None": it returned) and
\* the value it returned.
Ret(v) == [exc |-> "None", val |-> v]
Raised(e) == [exc |-> e, val |-> <<>>]

\* A guard that rejects every kind with the reserved prefix.
_guard_kind_prefix_only(kind) ==
    IF startswith(kind, ReservedPrefix)
    THEN Raised("ValueError:kind")
    ELSE Ret(kind)

_guard_kind(kind) ==
    IF startswith(kind, ReservedPrefix) /\ kind \notin _builtin_kinds
    THEN Raised("ValueError:kind")
    ELSE Ret(kind)

\* The kinds that can key _registered: only a guarded kind ever indexes it.
RegKinds == {k \in Kinds : _guard_kind(k).exc = "None"}

(***************************************************************************)
(* Listeners.  Custom listeners are the caller's own subclasses of         *)
(* Listener: their on_start and on_end may raise.  Timing and Recording    *)
(* listeners are those of the module.                                      *)
(***************************************************************************)
Customs == {"c1", "c2"}
Leavers == {"q1"}      \* custom listeners whose callbacks unregister them
Timers == {"t1", "t2"}
Recorders == {"r1"}
Listeners == Customs \cup Leavers \cup Timers \cup Recorders

None3 == <<"None", "None", "None">>   \* the (None, None, None) of __exit__
NoDetails == <<>>                     \* exc_details=None

ExcType(e) ==
    CASE e = "ValueError:kind" -> "ValueError"
      [] e = "ValueError:remove" -> "ValueError"
      [] e = "AttributeError:_duration" -> "AttributeError"
      [] e = "TypeError:_ts" -> "TypeError"
      [] e = "E" -> "BodyError"
      [] e = "F" -> "ListenerError"
      [] OTHER -> "None"

\* The exc_details an ExitStack callback receives.
ExcDetails(e) == IF e = "None" THEN None3 ELSE <<ExcType(e), e, "traceback">>

Datas == {"None"}

VARIABLES
    _registered,   \* kind -> list of listeners
    stack,         \* the open `with` blocks, innermost last
    exc,           \* the exception in flight, or "None"
    _ts,           \* TimingListener._ts: <<>> is None, <<t>> a timestamp
    _depth,        \* TimingListener._depth
    _duration,     \* TimingListener._duration: <<>> is "no such attribute"
    buffer,        \* RecordingListener.buffer
    now,           \* the clock
    trace,         \* what the last call did, in order
    op,            \* the last call
    iter           \* the for loop of a broadcast that a second thread runs

vars == <<_registered, stack, exc, _ts, _depth, _duration, buffer, now, trace, op, iter>>

\* timer() and time.time() read the same clock, the second from an epoch.
Epoch == 100
timer == now
time_time == Epoch + now

(***************************************************************************)
(* The mutable state a call works on, and what it has done so far.         *)
(***************************************************************************)
Cur ==
    [reg |-> _registered, ts |-> _ts, depth |-> _depth, dur |-> _duration,
     buf |-> buffer, trace |-> <<>>, exc |-> "None"]

\* A listener object that nothing referred to before the call (no open block
\* yielded it, no list holds it) is garbage: the next TimingListener() or
\* RecordingListener() stands in its place, so its fields are those of a new
\* object.  free is the set of such listeners.
Commit(m, free) ==
    /\ _registered' = m.reg
    /\ _ts' = [l \in Timers |-> IF l \in free THEN <<>> ELSE m.ts[l]]
    /\ _depth' = [l \in Timers |-> IF l \in free THEN 0 ELSE m.depth[l]]
    /\ _duration' = [l \in Timers |-> IF l \in free THEN <<>> ELSE m.dur[l]]
    /\ buffer' = [l \in Recorders |-> IF l \in free THEN <<>> ELSE m.buf[l]]
    /\ trace' = m.trace
    /\ iter' = iter

Log(m, e) == [m EXCEPT !.trace = Append(@, e)]

\* Event(kind, status, data, exc_details)
Event(kind, status, data, exc_details) ==
    LET g == _guard_kind(kind) IN
    IF g.exc # "None" THEN Raised(g.exc)
    ELSE Ret([kind |-> g.val, status |-> status, data |-> data,
              exc_details |-> exc_details])

is_start(ev) == ev.status = "START"
is_end(ev) == ev.status = "END"

\* Event.is_failed: self._exc_details[0] is None
is_failed(ev) ==
    IF ev.exc_details = NoDetails THEN Raised("TypeError:subscript")
    ELSE Ret(ev.exc_details[1] = "None")

(***************************************************************************)
(* TimingListener and RecordingListener.                                   *)
(***************************************************************************)
\* An on_start that takes the time at every Start.
Timing_on_start_resets(m, l) ==
    [m EXCEPT !.ts[l] = <<timer>>, !.depth[l] = @ + 1]

Timing_on_start(m, l) ==
    [m EXCEPT !.ts[l] = IF @ = <<>> THEN <<timer>> ELSE @,
              !.depth[l] = @ + 1]

\* An on_end that clears the timestamp when it stores a duration, so that the
\* next Start begins a measurement of its own.
Timing_on_end_clears_ts(m, l) ==
    LET d == m.depth[l] - 1 IN
    IF d = 0
    THEN IF m.ts[l] = <<>>
         THEN [m EXCEPT !.depth[l] = d, !.exc = "TypeError:_ts"]
         ELSE [m EXCEPT !.depth[l] = d, !.dur[l] = <<timer - m.ts[l][1]>>, !.ts[l] = <<>>]
    ELSE [m EXCEPT !.depth[l] = d]

\* An on_end that stores a duration at every End after a Start.
Timing_on_end_every(m, l) ==
    LET d == m.depth[l] - 1 IN
    IF m.ts[l] = <<>> THEN [m EXCEPT !.depth[l] = d]
    ELSE [m EXCEPT !.depth[l] = d, !.dur[l] = <<timer - m.ts[l][1]>>]

Timing_on_end(m, l) ==
    LET d == m.depth[l] - 1 IN
    IF d = 0
    THEN IF m.ts[l] = <<>>
         THEN [m EXCEPT !.depth[l] = d, !.exc = "TypeError:_ts"]
         ELSE [m EXCEPT !.depth[l] = d, !.dur[l] = <<timer - m.ts[l][1]>>]
    ELSE [m EXCEPT !.depth[l] = d]

Recording_on_start(m, l, ev) == [m EXCEPT !.buf[l] = Append(@, <<time_time, ev>>)]

\* An on_end that keeps only the latest entry of the buffer's tail.
Recording_on_end_replaces(m, l, ev) ==
    [m EXCEPT !.buf[l] = IF @ = <<>> THEN <<<<time_time, ev>>>>
                         ELSE [@ EXCEPT ![Len(@)] = <<time_time, ev>>]]

Recording_on_end(m, l, ev) == [m EXCEPT !.buf[l] = Append(@, <<time_time, ev>>)]

(***************************************************************************)
(* The registry.                                                           *)
(***************************************************************************)
\* A register that lists the listener for every kind.
register_everywhere(m, kind, listener) ==
    LET g == _guard_kind(kind) IN
    IF g.exc # "None" THEN [m EXCEPT !.exc = g.exc]
    ELSE [m EXCEPT !.reg = [k \in DOMAIN @ |-> Append(@[k], listener)]]

register(m, kind, listener) ==
    LET g == _guard_kind(kind) IN
    IF g.exc # "None" THEN [m EXCEPT !.exc = g.exc]
    ELSE [m EXCEPT !.reg[g.val] = Append(@, listener)]

\* list.index: the first position of x in lst, 0 when there is none.
RECURSIVE IndexFrom(_, _, _)
IndexFrom(lst, x, i) ==
    IF i > Len(lst) THEN 0
    ELSE IF lst[i] = x THEN i
    ELSE IndexFrom(lst, x, i + 1)

DeleteAt(lst, i) == SubSeq(lst, 1, i - 1) \o SubSeq(lst, i + 1, Len(lst))

\* The last position of x in lst, 0 when there is none.
RECURSIVE LastIndexFrom(_, _, _)
LastIndexFrom(lst, x, i) ==
    IF i < 1 THEN 0
    ELSE IF lst[i] = x THEN i
    ELSE LastIndexFrom(lst, x, i - 1)

\* A remove that takes the last equal entry.
list_remove_last(lst, x) ==
    LET i == LastIndexFrom(lst, x, Len(lst)) IN
    IF i = 0 THEN Raised("ValueError:remove") ELSE Ret(DeleteAt(lst, i))

\* A remove that takes every equal entry.
list_remove_all(lst, x) ==
    IF IndexFrom(lst, x, 1) = 0 THEN Raised("ValueError:remove")
    ELSE Ret(SelectSeq(lst, LAMBDA y : y # x))

\* A remove that ignores a missing entry.
list_remove_discard(lst, x) ==
    LET i == IndexFrom(lst, x, 1) IN
    IF i = 0 THEN Ret(lst) ELSE Ret(DeleteAt(lst, i))

\* list.remove(x)
list_remove(lst, x) ==
    LET i == IndexFrom(lst, x, 1) IN
    IF i = 0 THEN Raised("ValueError:remove") ELSE Ret(DeleteAt(lst, i))

unregister(m, kind, listener) ==
    LET g == _guard_kind(kind) IN
    IF g.exc # "None" THEN [m EXCEPT !.exc = g.exc]
    ELSE LET r == list_remove(m.reg[g.val], listener) IN
         IF r.exc # "None" THEN [m EXCEPT !.exc = r.exc]
         ELSE Log([m EXCEPT !.reg[g.val] = r.val], <<"unregister", g.val, listener>>)

(***************************************************************************)
(* Listener.notify and the callbacks it dispatches to.                     *)
(***************************************************************************)
\* A custom listener's callback: it returns, or it raises.
Custom_callback(m, l, fails) ==
    IF fails THEN Log([m EXCEPT !.exc = "F"], <<"raise", l>>) ELSE m

\* The callback of a custom listener that wants one event only: it calls
\* unregister(event.kind, self).
Leaver_callback(m, l, ev) == unregister(m, ev.kind, l)

on_start(m, l, ev, fails) ==
    CASE l \in Timers -> Timing_on_start(m, l)
      [] l \in Recorders -> Recording_on_start(m, l, ev)
      [] l \in Leavers -> Leaver_callback(m, l, ev)
      [] OTHER -> Custom_callback(m, l, fails)

on_end(m, l, ev, fails) ==
    CASE l \in Timers -> Timing_on_end(m, l)
      [] l \in Recorders -> Recording_on_end(m, l, ev)
      [] l \in Leavers -> Leaver_callback(m, l, ev)
      [] OTHER -> Custom_callback(m, l, fails)

\* Listener.notify
notify(m, l, ev, fails) ==
    LET m1 == Log(m, <<"notify", l, ev.status, ev.exc_details>>) IN
    IF is_start(ev) THEN on_start(m1, l, ev, fails)
    ELSE IF is_end(ev) THEN on_end(m1, l, ev, fails)
    ELSE [m1 EXCEPT !.exc = "AssertionError"]

\* A loop that notifies each listener once, however often it is listed.
RECURSIVE BroadcastFrom_once_each(_, _, _, _)
BroadcastFrom_once_each(m, ev, i, failAt) ==
    IF i > Len(m.reg[ev.kind]) THEN m
    ELSE IF \E j \in 1..(i - 1) : m.reg[ev.kind][j] = m.reg[ev.kind][i]
         THEN BroadcastFrom_once_each(m, ev, i + 1, failAt)
    ELSE LET m1 == notify(m, m.reg[ev.kind][i], ev, i = failAt) IN
         IF m1.exc # "None" THEN m1
         ELSE BroadcastFrom_once_each(m1, ev, i + 1, failAt)

\* A loop that goes on to the next listener when one raised, and raises in
\* the end.
RECURSIVE BroadcastFrom_isolating(_, _, _, _)
BroadcastFrom_isolating(m, ev, i, failAt) ==
    IF i > Len(m.reg[ev.kind]) THEN m
    ELSE LET m1 == notify([m EXCEPT !.exc = "None"], m.reg[ev.kind][i], ev, i = failAt)
             m2 == BroadcastFrom_isolating(m1, ev, i + 1, failAt)
         IN IF m1.exc # "None" THEN [m2 EXCEPT !.exc = m1.exc] ELSE m2

\* for listener in _registered[event.kind]: listener.notify(event)
\* The list iterator holds a position in the list and reads the list anew
\* at every step.  failAt is the position whose callback raises (0: none).
RECURSIVE BroadcastFrom(_, _, _, _)
BroadcastFrom(m, ev, i, failAt) ==
    IF i > Len(m.reg[ev.kind]) THEN m
    ELSE LET m1 == notify(m, m.reg[ev.kind][i], ev, i = failAt) IN
         IF m1.exc # "None" THEN m1
         ELSE BroadcastFrom(m1, ev, i + 1, failAt)

broadcast(m, ev, failAt) ==
    BroadcastFrom(Log(m, <<"broadcast", ev.kind, ev.status, ev.data, ev.exc_details>>),
                  ev, 1, failAt)

\* The positions of lst whose callback may raise: those of custom listeners.
FailPlans(lst) == {0} \cup {i \in 1..Len(lst) : lst[i] \in Customs}

PlansFor(kind) == IF kind \in RegKinds THEN FailPlans(_registered[kind]) ELSE {0}

(***************************************************************************)
(* The emission API.                                                       *)
(***************************************************************************)
start_event(m, kind, data, failAt) ==
    LET e == Event(kind, "START", data, NoDetails) IN
    IF e.exc # "None" THEN [m EXCEPT !.exc = e.exc]
    ELSE broadcast(m, e.val, failAt)

end_event(m, kind, data, exc_details, failAt) ==
    LET e == Event(kind, "END", data, exc_details) IN
    IF e.exc # "None" THEN [m EXCEPT !.exc = e.exc]
    ELSE broadcast(m, e.val, failAt)

(***************************************************************************)
(* mark_event, install_timer and install_recorder are generator context    *)
(* managers: the part before the yield runs on entry, the rest on exit,    *)
(* with the body's exception (excIn, "None" on a normal exit) thrown in at *)
(* the yield.                                                              *)
(***************************************************************************)
\* An open block: which context manager, its arguments, the listener it
\* yielded, and, for the record: kind's list as it was before an installer's
\* block, the TimingListeners whose first Start was the one a mark_event
\* block broadcast, and the clock at that Start.
Frame(ctx, kind, data, lis, cb) ==
    LET seen == IF ctx = "mark_event" /\ kind \in RegKinds
                THEN {l \in Timers : /\ _ts[l] = <<>>
                                     /\ \E i \in 1..Len(_registered[kind]) :
                                            _registered[kind][i] = l}
                ELSE {}
    IN [ctx |-> ctx, kind |-> kind, data |-> data, lis |-> lis, cb |-> cb,
        saved |-> IF lis # "none" /\ kind \in RegKinds THEN _registered[kind] ELSE <<>>,
        seen |-> seen,
        at |-> IF seen # {} THEN timer ELSE 0]

\* on_exit with a true return value: the ExitStack would swallow excIn.
on_exit_suppressing(m, kind, data, excIn, failAt) ==
    LET m1 == end_event(m, kind, data, ExcDetails(excIn), failAt) IN
    IF m1.exc # "None" THEN m1 ELSE [m1 EXCEPT !.exc = "None"]

\* on_exit(*exc_details), the callback mark_event pushes on its ExitStack.
\* It returns None, so the ExitStack never suppresses excIn; an exception
\* on_exit raises itself takes excIn's place.
on_exit(m, kind, data, excIn, failAt) ==
    LET m1 == end_event(m, kind, data, ExcDetails(excIn), failAt) IN
    IF m1.exc # "None" THEN m1 ELSE [m1 EXCEPT !.exc = excIn]

\* mark_event with on_exit pushed only after start_event returned.
mark_event_enter_push_late(m, kind, data, failStart, failEnd) ==
    start_event(m, kind, data, failStart)

\* mark_event up to its yield.  on_exit is pushed before start_event runs, so
\* an exception of start_event leaves the `with ExitStack()` through on_exit.
mark_event_enter(m, kind, data, failStart, failEnd) ==
    LET m1 == start_event(m, kind, data, failStart) IN
    IF m1.exc # "None"
    THEN on_exit([m1 EXCEPT !.exc = "None"], kind, data, m1.exc, failEnd)
    ELSE m1

\* mark_event with on_exit pushed twice.
mark_event_exit_twice(m, f, excIn, failEnd) ==
    LET m1 == on_exit(m, f.kind, f.data, excIn, failEnd) IN
    IF m1.exc # excIn THEN m1
    ELSE on_exit([m1 EXCEPT !.exc = "None"], f.kind, f.data, excIn, failEnd)

\* mark_event from its yield on.
mark_event_exit(m, f, excIn, failEnd) == on_exit(m, f.kind, f.data, excIn, failEnd)

\* TimingListener(): _ts = None, _depth = 0, no _duration.
TimingListener(m, l) ==
    [m EXCEPT !.ts[l] = <<>>, !.depth[l] = 0, !.dur[l] = <<>>]

\* RecordingListener(): buffer = []
RecordingListener(m, l) == [m EXCEPT !.buf[l] = <<>>]

\* A duration that starts out as zero.
duration_default(m, l) ==
    IF m.dur[l] = <<>> THEN Ret(0) ELSE Ret(m.dur[l][1])

\* TimingListener.duration
duration(m, l) ==
    IF m.dur[l] = <<>> THEN Raised("AttributeError:_duration") ELSE Ret(m.dur[l][1])

\* install_timer up to its yield.
install_timer_enter(m, kind, l) == register(TimingListener(m, l), kind, l)

\* install_timer with the callback inside the finally clause.
install_timer_exit_always_calls(m, f, excIn) ==
    LET m1 == unregister(m, f.kind, f.lis) IN
    IF m1.exc # "None" THEN m1
    ELSE LET d == duration(m1, f.lis) IN
         IF d.exc # "None" THEN [m1 EXCEPT !.exc = d.exc]
         ELSE [Log(m1, <<"callback", f.cb, f.lis, d.val>>) EXCEPT !.exc = excIn]

\* install_timer from its yield on: the finally clause, then the callback
\* when no exception is on its way out.
install_timer_exit(m, f, excIn) ==
    LET m1 == unregister(m, f.kind, f.lis) IN
    IF m1.exc # "None" THEN m1
    ELSE IF excIn # "None" THEN [m1 EXCEPT !.exc = excIn]
    ELSE LET d == duration(m1, f.lis) IN
         IF d.exc # "None" THEN [m1 EXCEPT !.exc = d.exc]
         ELSE Log(m1, <<"callback", f.cb, f.lis, d.val>>)

\* install_recorder up to its yield.
install_recorder_enter(m, kind, l) == register(RecordingListener(m, l), kind, l)

\* install_recorder with the unregister after the yield, outside a finally.
install_recorder_exit_no_finally(m, f, excIn) ==
    IF excIn # "None" THEN [m EXCEPT !.exc = excIn]
    ELSE unregister(m, f.kind, f.lis)

\* install_recorder from its yield on.
install_recorder_exit(m, f, excIn) ==
    LET m1 == unregister(m, f.kind, f.lis) IN
    IF m1.exc # "None" THEN m1 ELSE [m1 EXCEPT !.exc = excIn]

(***************************************************************************)
(* Bounds on the state, as guards of the calls that grow it.               *)
(***************************************************************************)
RECURSIVE SumLen(_, _)
SumLen(reg, ks) ==
    IF ks = {} THEN 0
    ELSE LET k == CHOOSE x \in ks : TRUE IN Len(reg[k]) + SumLen(reg, ks \ {k})

Entries == SumLen(_registered, RegKinds)

Range(lst) == {lst[i] : i \in 1..Len(lst)}

\* Listeners a broadcast of kind would notify.
Listening(kind) == IF kind \in RegKinds THEN Range(_registered[kind]) ELSE {}

\* Room for n more notifications of the given status.
RoomFor(kind, status, n) ==
    /\ \A l \in Listening(kind) \cap Recorders : Len(buffer[l]) + n <= MaxBuf
    /\ \A l \in Listening(kind) \cap Timers :
          IF status = "START" THEN _depth[l] < MaxDepth ELSE _depth[l] > -MaxDepth

\* Listeners the running code holds a reference to: the custom listeners it
\* made (C) and those the open install_timer and install_recorder blocks
\* yielded.
Installed == {stack[i].lis : i \in 1..Len(stack)} \ {"none"}
Held(C) == C \cup Installed

Registered == UNION {Range(_registered[k]) : k \in RegKinds}

\* A listener object nothing refers to any more stands for a new object.
Unused(S) == {l \in S : l \notin Installed /\ l \notin Registered}
Garbage == Unused(Timers \cup Recorders)

Call(name, kind, lis) == [name |-> name, kind |-> kind, lis |-> lis, excIn |-> exc]

Top == stack[Len(stack)]
Pop == SubSeq(stack, 1, Len(stack) - 1)

\* No second thread is in broadcast.
NoIter == [st |-> "idle", ev |-> <<>>, pos |-> 0, notified |-> <<>>, stayed |-> {}]

(***************************************************************************)
(* The calls.                                                              *)
(***************************************************************************)
Init ==
    /\ _registered = [k \in RegKinds |-> <<>>]
    /\ stack = <<>>
    /\ exc = "None"
    /\ _ts = [l \in Timers |-> <<>>]
    /\ _depth = [l \in Timers |-> 0]
    /\ _duration = [l \in Timers |-> <<>>]
    /\ buffer = [l \in Recorders |-> <<>>]
    /\ now = 0
    /\ trace = <<>>
    /\ op = [name |-> "init", kind |-> <<>>, lis |-> "none", excIn |-> "None"]
    /\ iter = NoIter

Register(kind, listener) ==
    /\ exc = "None"
    /\ Entries < MaxReg
    /\ LET m == register(Cur, kind, listener) IN Commit(m, Garbage) /\ exc' = m.exc
    /\ op' = Call("register", kind, listener)
    /\ UNCHANGED <<stack, now>>

Unregister(kind, listener) ==
    /\ exc = "None"
    /\ LET m == unregister(Cur, kind, listener) IN Commit(m, Garbage) /\ exc' = m.exc
    /\ op' = Call("unregister", kind, listener)
    /\ UNCHANGED <<stack, now>>

StartEvent(kind, data, failAt) ==
    /\ exc = "None"
    /\ RoomFor(kind, "START", 1)
    /\ LET m == start_event(Cur, kind, data, failAt) IN Commit(m, Garbage) /\ exc' = m.exc
    /\ op' = Call("start_event", kind, "none")
    /\ UNCHANGED <<stack, now>>

EndEvent(kind, data, exc_details, failAt) ==
    /\ exc = "None"
    /\ RoomFor(kind, "END", 1)
    /\ LET m == end_event(Cur, kind, data, exc_details, failAt) IN Commit(m, Garbage) /\ exc' = m.exc
    /\ op' = Call("end_event", kind, "none")
    /\ UNCHANGED <<stack, now>>

\* with mark_event(kind, data): the body is entered only when the part before
\* the yield returns.
MarkEnter(kind, data, failStart, failEnd) ==
    /\ exc = "None"
    /\ Len(stack) < MaxStack
    /\ RoomFor(kind, "START", 1)
    /\ failStart = 0 => failEnd = 0
    /\ failStart # 0 => RoomFor(kind, "END", 2)
    /\ LET m == mark_event_enter(Cur, kind, data, failStart, failEnd) IN
          /\ Commit(m, Garbage)
          /\ exc' = m.exc
          /\ stack' = IF m.exc = "None"
                      THEN Append(stack, Frame("mark_event", kind, data, "none", "none"))
                      ELSE stack
    /\ op' = Call("mark_enter", kind, "none")
    /\ UNCHANGED now

\* The end of a mark_event block: its body returned (exc = "None") or an
\* exception is leaving it.
MarkExit(failEnd) ==
    /\ stack # <<>>
    /\ Top.ctx = "mark_event"
    /\ RoomFor(Top.kind, "END", 1)
    /\ LET m == mark_event_exit(Cur, Top, exc, failEnd) IN Commit(m, Garbage) /\ exc' = m.exc
    /\ stack' = Pop
    /\ op' = Call("mark_exit", Top.kind, "none")
    /\ UNCHANGED now

\* with install_timer(kind, cb): pool holds the objects TimingListener() may
\* return.
TimerEnter(kind, cb, pool) ==
    /\ exc = "None"
    /\ Len(stack) < MaxStack
    /\ Entries < MaxReg
    /\ Unused(pool) # {}
    /\ LET l == CHOOSE x \in Unused(pool) : TRUE
           m == install_timer_enter(Cur, kind, l)
       IN /\ Commit(m, Garbage)
          /\ exc' = m.exc
          /\ stack' = IF m.exc = "None"
                      THEN Append(stack, Frame("install_timer", kind, "None", l, cb))
                      ELSE stack
          /\ op' = Call("timer_enter", kind, l)
    /\ UNCHANGED now

TimerExit ==
    /\ stack # <<>>
    /\ Top.ctx = "install_timer"
    /\ LET m == install_timer_exit(Cur, Top, exc) IN Commit(m, Garbage) /\ exc' = m.exc
    /\ stack' = Pop
    /\ op' = Call("timer_exit", Top.kind, Top.lis)
    /\ UNCHANGED now

RecorderEnter(kind, pool) ==
    /\ exc = "None"
    /\ Len(stack) < MaxStack
    /\ Entries < MaxReg
    /\ Unused(pool) # {}
    /\ LET l == CHOOSE x \in Unused(pool) : TRUE
           m == install_recorder_enter(Cur, kind, l)
       IN /\ Commit(m, Garbage)
          /\ exc' = m.exc
          /\ stack' = IF m.exc = "None"
                      THEN Append(stack, Frame("install_recorder", kind, "None", l, "none"))
                      ELSE stack
          /\ op' = Call("recorder_enter", kind, l)
    /\ UNCHANGED now

RecorderExit ==
    /\ stack # <<>>
    /\ Top.ctx = "install_recorder"
    /\ LET m == install_recorder_exit(Cur, Top, exc) IN Commit(m, Garbage) /\ exc' = m.exc
    /\ stack' = Pop
    /\ op' = Call("recorder_exit", Top.kind, Top.lis)
    /\ UNCHANGED now

\* The body of the innermost open block raises E.
Raise ==
    /\ exc = "None"
    /\ stack # <<>>
    /\ exc' = "E"
    /\ Commit(Cur, Garbage)
    /\ op' = Call("raise", <<>>, "none")
    /\ UNCHANGED <<stack, now>>

\* The code around the call that raised catches the exception.
Catch ==
    /\ exc # "None"
    /\ exc' = "None"
    /\ Commit(Cur, Garbage)
    /\ op' = Call("catch", <<>>, "none")
    /\ UNCHANGED <<stack, now>>

Tick ==
    /\ now < MaxClock
    /\ now' = now + 1
    /\ Commit(Cur, Garbage)
    /\ op' = Call("tick", <<>>, "none")
    /\ UNCHANGED <<stack, exc>>

EndDetails == {NoDetails, None3}
Callbacks == {"cb"}

TopPlans == IF stack = <<>> THEN {0} ELSE PlansFor(Top.kind)

(***************************************************************************)
(* Spec: the registry, the emission API and mark_event, driven with custom *)
(* listeners whose callbacks may raise.                                    *)
(***************************************************************************)
Next ==
    \/ \E k \in Kinds, l \in Customs : Register(k, l)
    \/ \E k \in Kinds, l \in Customs : Unregister(k, l)
    \/ \E k \in Kinds, d \in Datas : \E f \in PlansFor(k) : StartEvent(k, d, f)
    \/ \E k \in Kinds, d \in Datas, x \in EndDetails : \E f \in PlansFor(k) : EndEvent(k, d, x, f)
    \/ \E k \in Kinds, d \in Datas : \E fs \in PlansFor(k), fe \in PlansFor(k) :
          Len(stack) < MaxNest /\ MarkEnter(k, d, fs, fe)
    \/ \E fe \in TopPlans : MarkExit(fe)
    \/ Raise
    \/ Catch

Spec == Init /\ [][Next]_vars

(***************************************************************************)
(* Reading the last call's trace.                                          *)
(***************************************************************************)
IsNotify(e) == e[1] = "notify"
IsBroadcast(e) == e[1] = "broadcast"
IsRaise(e) == e[1] = "raise"

\* The listeners the entries of t name, in order.
ListenersOf(t) == [i \in 1..Len(t) |-> t[i][2]]

\* The listeners notified, the broadcasts made and the callbacks that raised
\* during the last call.
Notified == ListenersOf(SelectSeq(trace, IsNotify))
Broadcasts == SelectSeq(trace, IsBroadcast)
Raisers == ListenersOf(SelectSeq(trace, IsRaise))

IsEndBroadcast(e) == IsBroadcast(e) /\ e[3] = "END"
IsStartBroadcast(e) == IsBroadcast(e) /\ e[3] = "START"

IsPrefix(s, t) == Len(s) <= Len(t) /\ SubSeq(t, 1, Len(s)) = s

Count(x, lst) == Cardinality({i \in 1..Len(lst) : lst[i] = x})

\* The last call was the exit of a mark_event block of a body that raised.
MarkExitRaising == op.name = "mark_exit" /\ op.excIn # "None"

(***************************************************************************)
(* C1 as stated: when the body of a mark_event(k) block raises E, the End  *)
(* event is delivered to every listener registered for k and the caller    *)
(* then observes E itself.                                                 *)
(***************************************************************************)
C1_AsStated ==
    MarkExitRaising =>
        /\ Notified = _registered[op.kind]
        /\ exc = op.excIn

(***************************************************************************)
(* C1, amended: when the body of a mark_event(k) block raises E, one End   *)
(* event carrying E is broadcast before the exception leaves the block.    *)
(* If no listener's on_end raises, every listener registered for k is      *)
(* notified, in order, and the caller observes E itself; if a listener's   *)
(* on_end raises, the broadcast stops at that listener and the caller      *)
(* observes that listener's exception in place of E.  The block never      *)
(* ends without an exception.                                              *)
(***************************************************************************)
C1_EndThenSameFailure ==
    MarkExitRaising =>
        /\ Len(Broadcasts) = 1
        /\ Broadcasts[1][3] = "END"
        /\ Broadcasts[1][2] = op.kind
        /\ Broadcasts[1][5] = ExcDetails(op.excIn)
        /\ exc # "None"
        /\ IF Raisers = <<>>
           THEN Notified = _registered[op.kind] /\ exc = op.excIn
           ELSE /\ IsPrefix(Notified, _registered[op.kind])
                /\ Raisers = <<Notified[Len(Notified)]>>
                /\ exc = "F"

C1_Witness ==
    /\ MarkExitRaising
    /\ op.excIn = "E"
    /\ Raisers = <<>>
    /\ Len(Notified) >= 2
    /\ exc = "E"

(***************************************************************************)
(* The last call was a mark_event entry during whose Start broadcast a     *)
(* listener's callback raised.                                             *)
(***************************************************************************)
StartFailed ==
    /\ op.name = "mark_enter"
    /\ \E i \in 1..Len(trace) :
          /\ IsRaise(trace[i])
          /\ \A j \in 1..(i - 1) : ~IsEndBroadcast(trace[j])

\* The place of the End broadcast in the trace (0: none), and what came
\* before and after it.
RECURSIVE EndPosFrom(_)
EndPosFrom(i) ==
    IF i > Len(trace) THEN 0
    ELSE IF IsEndBroadcast(trace[i]) THEN i
    ELSE EndPosFrom(i + 1)
EndPos == EndPosFrom(1)
StartPhase == IF EndPos = 0 THEN trace ELSE SubSeq(trace, 1, EndPos - 1)
EndPhase == IF EndPos = 0 THEN <<>> ELSE SubSeq(trace, EndPos, Len(trace))

(***************************************************************************)
(* C2 as stated: when a listener's callback raises during the Start        *)
(* broadcast of mark_event(k), no End event of kind k is broadcast for     *)
(* that invocation.                                                        *)
(***************************************************************************)
C2_AsStated == StartFailed => SelectSeq(trace, IsEndBroadcast) = <<>>

(***************************************************************************)
(* C2, amended: when a listener's callback raises during the Start         *)
(* broadcast of mark_event(k), the End event of kind k is still broadcast, *)
(* once, carrying the listener's exception as its failure triple: on_exit  *)
(* is on the ExitStack before start_event runs.  The End broadcast starts  *)
(* again from the head of k's list (so listeners behind the one that       *)
(* raised see an End without a Start), and the caller of mark_event        *)
(* observes a listener's exception.                                        *)
(***************************************************************************)
C2_EndStillBroadcast ==
    StartFailed =>
        /\ Len(SelectSeq(trace, IsStartBroadcast)) = 1
        /\ Len(SelectSeq(trace, IsEndBroadcast)) = 1
        /\ trace[EndPos][2] = op.kind
        /\ trace[EndPos][5] = ExcDetails("F")
        /\ Len(SelectSeq(StartPhase, IsRaise)) = 1
        /\ LET ended == ListenersOf(SelectSeq(EndPhase, IsNotify)) IN
           IF SelectSeq(EndPhase, IsRaise) = <<>>
           THEN ended = _registered[op.kind]
           ELSE IsPrefix(ended, _registered[op.kind])
        /\ exc = "F"

C2_Witness ==
    /\ StartFailed
    /\ Len(SelectSeq(StartPhase, IsNotify)) = 1
    /\ SelectSeq(EndPhase, IsRaise) = <<>>
    /\ Len(SelectSeq(EndPhase, IsNotify)) >= 2

(***************************************************************************)
(* C3: a mark_event(k) invocation on a valid kind broadcasts one Start     *)
(* event of kind k on entry and no End; the exit of its block broadcasts   *)
(* exactly one End event of kind k and no Start, carrying (None, None,     *)
(* None) when the body returned and the body's exception as (type, value,  *)
(* traceback) when it raised; an entry that fails in its Start broadcast   *)
(* has broadcast its one Start and then its one End.                       *)
(***************************************************************************)
C3_OneStartOneEnd ==
    /\ (op.name = "mark_enter" /\ exc = "None") =>
          /\ Len(Broadcasts) = 1
          /\ IsStartBroadcast(Broadcasts[1])
          /\ Broadcasts[1][2] = op.kind
          /\ stack # <<>> /\ Top.ctx = "mark_event" /\ Top.kind = op.kind
          /\ Broadcasts[1][4] = Top.data
    /\ op.name = "mark_exit" =>
          /\ Len(Broadcasts) = 1
          /\ IsEndBroadcast(Broadcasts[1])
          /\ Broadcasts[1][2] = op.kind
          /\ Broadcasts[1][5] = IF op.excIn = "None" THEN None3
                                ELSE <<ExcType(op.excIn), op.excIn, "traceback">>
    /\ (op.name = "mark_enter" /\ exc # "None" /\ op.kind \in RegKinds) =>
          /\ Len(Broadcasts) = 2
          /\ IsStartBroadcast(Broadcasts[1])
          /\ IsEndBroadcast(Broadcasts[2])
          /\ Broadcasts[2][5] # None3

C3_Witness ==
    /\ op.name = "mark_exit"
    /\ op.excIn = "E"
    /\ Len(Broadcasts) = 1
    /\ Broadcasts[1][5] = <<"BodyError", "E", "traceback">>
    /\ Len(Notified) >= 1

\* The last call made one broadcast, and no callback raised in it.
CompleteBroadcast == Len(Broadcasts) = 1 /\ Raisers = <<>>

\* The last call made one broadcast, and a callback raised in it.
FailedBroadcast ==
    /\ op.name \in {"start_event", "end_event", "mark_exit"}
    /\ Len(Broadcasts) = 1
    /\ Raisers # <<>>

(***************************************************************************)
(* C4: register(k, L) puts L behind the entries k's list already has, and  *)
(* a broadcast of kind k in which no callback raises notifies the entries  *)
(* of k's list in the order of the list, each entry once: a listener       *)
(* listed once is notified once, one listed twice is notified twice.       *)
(***************************************************************************)
C4_RegistrationOrder ==
    [][/\ (op'.name = "register" /\ exc' = "None") =>
              _registered'[op'.kind] = _registered[op'.kind] \o <<op'.lis>>
       /\ CompleteBroadcast' =>
              /\ Notified' = _registered[Broadcasts'[1][2]]
              /\ \A l \in Listeners :
                    Count(l, Notified') = Count(l, _registered[Broadcasts'[1][2]])
      ]_vars

C4_Witness ==
    /\ op.name = "start_event"
    /\ CompleteBroadcast
    /\ Len(Notified) = 3
    /\ Notified[1] = Notified[3]
    /\ Notified[1] # Notified[2]

(***************************************************************************)
(* C5: when a listener's callback raises during a broadcast, the exception *)
(* reaches the caller of the broadcast at once: the entries of the list    *)
(* before the one that raised have been notified once each, in order, no   *)
(* entry behind it is notified, and no listener list has changed.          *)
(***************************************************************************)
C5_FailureStopsBroadcast ==
    [][FailedBroadcast' =>
          LET lst == _registered[op'.kind]
              n == Len(Notified')
          IN /\ n >= 1
             /\ Notified' = SubSeq(lst, 1, n)
             /\ Raisers' = <<lst[n]>>
             /\ exc' = "F"
             /\ _registered' = _registered
      ]_vars

C5_Witness ==
    /\ op.name = "start_event"
    /\ FailedBroadcast
    /\ Len(Notified) = 2
    /\ Len(_registered[op.kind]) = 3
    /\ exc = "F"

(***************************************************************************)
(* C6: a successful unregister(k, L) removes exactly one entry of k's      *)
(* list, the first one equal to L; every other entry, later entries equal  *)
(* to L among them, stays, in the order it had, and the lists of the other *)
(* kinds are untouched.                                                    *)
(***************************************************************************)
C6_RemovesFirstMatch ==
    [][(op'.name = "unregister" /\ exc' = "None") =>
          LET old == _registered[op'.kind]
              new == _registered'[op'.kind]
          IN /\ \E i \in 1..Len(old) :
                   /\ old[i] = op'.lis
                   /\ \A j \in 1..(i - 1) : old[j] # op'.lis
                   /\ Len(new) = Len(old) - 1
                   /\ \A j \in 1..(i - 1) : new[j] = old[j]
                   /\ \A j \in i..Len(new) : new[j] = old[j + 1]
             /\ \A k \in RegKinds \ {op'.kind} : _registered'[k] = _registered[k]
      ]_vars

\* After the call the list is <<X, L>> with X # L: it was <<L, X, L>>.
C6_Witness ==
    /\ op.name = "unregister"
    /\ exc = "None"
    /\ Len(_registered[op.kind]) = 2
    /\ _registered[op.kind][2] = op.lis
    /\ _registered[op.kind][1] # op.lis

\* The last call was a successful unregister.
Unregistered == op.name = "unregister" /\ exc = "None"

(***************************************************************************)
(* C7 as stated: after unregister(k, L) succeeds, the next broadcast of     *)
(* kind k does not notify L, whatever was registered before.               *)
(***************************************************************************)
C7_AsStated ==
    [][(/\ Unregistered
        /\ op'.name \in {"start_event", "end_event"}
        /\ op'.kind = op.kind) =>
          Count(op.lis, Notified') = 0
      ]_vars

(***************************************************************************)
(* C7, amended: a successful unregister(k, L) takes one of L's entries out *)
(* of k's list, and a following broadcast of kind k in which no callback   *)
(* raises notifies L once for every entry of L that is left: it does not   *)
(* notify L exactly when L had a single entry in k's list before the call. *)
(***************************************************************************)
C7_NotifiedPerRemainingEntry ==
    [][/\ (op'.name = "unregister" /\ exc' = "None") =>
              Count(op'.lis, _registered'[op'.kind])
                  = Count(op'.lis, _registered[op'.kind]) - 1
       /\ (/\ Unregistered
           /\ op'.name \in {"start_event", "end_event"}
           /\ op'.kind = op.kind
           /\ CompleteBroadcast') =>
              /\ Count(op.lis, Notified') = Count(op.lis, _registered[op.kind])
              /\ (Count(op.lis, Notified') = 0) <=> (op.lis \notin Range(_registered[op.kind]))
      ]_vars

\* L has been unregistered once and is still listed, behind another listener.
C7_Witness ==
    /\ Unregistered
    /\ Count(op.lis, _registered[op.kind]) = 1
    /\ Len(_registered[op.kind]) = 2

(***************************************************************************)
(* C8: unregister(k, L) on a valid kind k whose list does not hold L       *)
(* raises the ValueError of list.remove and changes nothing: no listener   *)
(* list, no listener, and nobody is notified.                              *)
(***************************************************************************)
C8_AbsentListenerRaises ==
    [][(/\ op'.name = "unregister"
        /\ op'.kind \in RegKinds
        /\ op'.lis \notin Range(_registered[op'.kind])) =>
          /\ exc' = "ValueError:remove"
          /\ ExcType(exc') = "ValueError"
          /\ trace' = <<>>
          /\ UNCHANGED <<_registered, stack, _ts, _depth, _duration, buffer>>
      ]_vars

\* L is listed under another kind only.
C8_Witness ==
    /\ op.name = "unregister"
    /\ exc = "ValueError:remove"
    /\ \E k \in RegKinds \ {op.kind} : op.lis \in Range(_registered[k])

(***************************************************************************)
(* SpecInstall: install_timer and install_recorder around the same calls,  *)
(* on one valid and one invalid kind.  A body starts events and registers  *)
(* and unregisters the listener its block yielded, under the block's kind. *)
(***************************************************************************)
InstallKinds == {K_user, K_bogus}

NextInstall ==
    \/ stack # <<>> /\ Register(Top.kind, Top.lis)
    \/ stack # <<>> /\ Unregister(Top.kind, Top.lis)
    \/ \E k \in InstallKinds : StartEvent(k, "None", 0)
    \/ \E k \in InstallKinds, cb \in Callbacks :
           Len(stack) < MaxNest /\ TimerEnter(k, cb, Timers)
    \/ TimerExit
    \/ \E k \in InstallKinds : Len(stack) < MaxNest /\ RecorderEnter(k, Recorders)
    \/ RecorderExit
    \/ Raise
    \/ Catch

SpecInstall == Init /\ [][NextInstall]_vars

(***************************************************************************)
(* SpecTimer: one install_timer block at a time around calls of the        *)
(* emission API, with a clock that advances.                               *)
(***************************************************************************)
NextTimer ==
    \/ \E l \in Installed : Register(K_user, l)
    \/ \E l \in Installed : Unregister(K_user, l)
    \/ StartEvent(K_user, "None", 0)
    \/ EndEvent(K_user, "None", None3, 0)
    \/ MarkEnter(K_user, "None", 0, 0)
    \/ MarkExit(0)
    \/ \E k \in InstallKinds, cb \in Callbacks : TimerEnter(k, cb, {"t1"})
    \/ TimerExit
    \/ Raise
    \/ Catch
    \/ Tick

SpecTimer == Init /\ [][NextTimer]_vars
IsCallback(e) == e[1] = "callback"
IsUnregister(e) == e[1] = "unregister"
Callbacked == SelectSeq(trace, IsCallback)
Removals == SelectSeq(trace, IsUnregister)

Entering == op.name \in {"timer_enter", "recorder_enter"} /\ exc = "None"
Leaving == op.name \in {"timer_exit", "recorder_exit"}

(***************************************************************************)
(* C10: entering an install_timer(k, ...) or install_recorder(k) block     *)
(* puts one listener that no list holds, in the state of a new object,     *)
(* behind the entries of k's list.  When the block ends, normally or by an *)
(* exception, with that listener in k's list, one entry of it is removed   *)
(* by one unregister call, no other list changes, an exception on its way  *)
(* out goes on unchanged, and a recorder's buffer is what it was when the  *)
(* body ended; when the body has left k's list as it was at entry, k's     *)
(* list is again what it was before the block was entered.  A Start event  *)
(* broadcast in a body is appended to the buffer of every recorder, once   *)
(* for each of its entries in the list.  Blocks nested in a body, for the  *)
(* same kind, are bodies that leave the list as it was.                    *)
(***************************************************************************)
C10_InstallRestoresList ==
    [][/\ Entering' =>
             LET f == stack'[Len(stack')] IN
             /\ Len(stack') = Len(stack) + 1
             /\ f.kind = op'.kind /\ f.lis = op'.lis
             /\ f.lis \notin Registered
             /\ f.lis \notin Installed
             /\ _registered'[f.kind] = _registered[f.kind] \o <<f.lis>>
             /\ \A k \in RegKinds \ {f.kind} : _registered'[k] = _registered[k]
             /\ f.lis \in Timers =>
                    _ts'[f.lis] = <<>> /\ _depth'[f.lis] = 0 /\ _duration'[f.lis] = <<>>
             /\ f.lis \in Recorders => buffer'[f.lis] = <<>>
       /\ (Leaving' /\ Top.lis \in Range(_registered[Top.kind])) =>
             /\ stack' = Pop
             /\ Removals' = << <<"unregister", Top.kind, Top.lis>> >>
             /\ Count(Top.lis, _registered'[Top.kind])
                    = Count(Top.lis, _registered[Top.kind]) - 1
             /\ \A k \in RegKinds \ {Top.kind} : _registered'[k] = _registered[k]
             /\ exc # "None" => exc' = exc
             /\ Top.lis \in Recorders => buffer'[Top.lis] = buffer[Top.lis]
       /\ (Leaving' /\ _registered[Top.kind] = Top.saved \o <<Top.lis>>) =>
             _registered'[Top.kind] = Top.saved
       /\ (op'.name = "start_event" /\ exc' = "None") =>
             \A r \in Recorders :
                 /\ IsPrefix(buffer[r], buffer'[r]) \/ r \in Garbage
                 /\ Len(buffer'[r]) =
                       (IF r \in Garbage THEN 0 ELSE Len(buffer[r]))
                           + Count(r, _registered[op'.kind])
      ]_vars

\* A recorder block nested in another block of the same kind has ended by an
\* exception: the recorder is gone from the list, the outer listener is still
\* there, and the recorder's buffer holds what was recorded.
C10_Witness ==
    /\ op.name = "recorder_exit"
    /\ op.excIn = "E"
    /\ exc = "E"
    /\ stack # <<>>
    /\ Top.kind = op.kind
    /\ _registered[op.kind] = <<Top.lis>>
    /\ Len(buffer[op.lis]) >= 2

\* The open mark_event blocks.
MarkFrames(stk) == {i \in 1..Len(stk) : stk[i].ctx = "mark_event"}

(***************************************************************************)
(* C11: a TimingListener listed once for k, around nested mark_event(k)    *)
(* blocks.  The Start of a block sets the start timestamp only when none   *)
(* is set, and stores no duration; while blocks are open the timestamp of  *)
(* a listener whose first Start was the outer block's is the time the      *)
(* outer block was entered.  The End of a block stores a duration exactly  *)
(* when it brings the depth back to zero: the inner End stores none, the   *)
(* outer End stores the time from the outer Start to the outer End.        *)
(***************************************************************************)
C11_OneDurationAtOuterEnd ==
    [][/\ (op'.name = "mark_enter" /\ exc' = "None") =>
             \A l \in Timers : Count(l, _registered[op'.kind]) = 1 =>
                 /\ _ts'[l] = IF _ts[l] = <<>> THEN <<now>> ELSE _ts[l]
                 /\ _depth'[l] = _depth[l] + 1
                 /\ _duration'[l] = _duration[l]
       /\ \A i \in MarkFrames(stack') : \A l \in stack'[i].seen :
             _ts'[l] = <<stack'[i].at>>
       /\ (op'.name = "mark_exit" /\ exc' = exc) =>
             \A l \in Timers : Count(l, _registered[Top.kind]) = 1 =>
                 /\ _ts'[l] = _ts[l]
                 /\ _depth'[l] = _depth[l] - 1
                 /\ _duration'[l] = IF _depth[l] = 1 THEN <<now - _ts[l][1]>>
                                    ELSE _duration[l]
                 /\ (_depth[l] = 1 /\ l \in Top.seen) =>
                        _duration'[l] = <<now - Top.at>>
      ]_vars

\* The inner of two nested blocks of one kind has ended, later than the outer
\* one began: the listener that saw the outer Start first is at depth one and
\* has no duration.
C11_Witness ==
    /\ op.name = "mark_exit"
    /\ exc = "None"
    /\ Len(stack) = 2
    /\ Top.ctx = "mark_event"
    /\ Top.kind = op.kind
    /\ now > Top.at
    /\ \E l \in Top.seen :
          /\ Count(l, _registered[op.kind]) = 1
          /\ _depth[l] = 1
          /\ _duration[l] = <<>>
          /\ _ts[l] = <<Top.at>>

\* The End notifications of listener l in the last call.
EndsOf(l) == SelectSeq(trace, LAMBDA e : IsNotify(e) /\ e[2] = l /\ e[3] = "END")

Allowed(k) == ~startswith(k, ReservedPrefix) \/ k \in _builtin_kinds

GuardedCalls == {"register", "unregister", "start_event", "end_event"}

(***************************************************************************)
(* C13: register, unregister, start_event, end_event and Event(...) apply  *)
(* the guard to their kind.  On a kind with the reserved prefix that is    *)
(* not built in, the call raises the guard's ValueError and nothing else   *)
(* happens: no list changes, no broadcast starts, no listener is notified. *)
(* On any other kind the guard lets the call through: register appends,    *)
(* start_event and end_event start their broadcast, and no call raises the *)
(* guard's ValueError.                                                     *)
(***************************************************************************)
C13_GuardAtEveryUse ==
    [][/\ \A k \in Kinds \cup _builtin_kinds :
             /\ _guard_kind(k).exc = "None" <=> Allowed(k)
             /\ Allowed(k) => _guard_kind(k).val = k
             /\ ~Allowed(k) => _guard_kind(k).exc = "ValueError:kind"
             /\ Event(k, "START", "None", NoDetails).exc = "None" <=> Allowed(k)
       /\ op'.name \in GuardedCalls =>
             IF Allowed(op'.kind)
             THEN /\ exc' # "ValueError:kind"
                  /\ op'.name = "register" =>
                         /\ exc' = "None"
                         /\ _registered'[op'.kind] = Append(_registered[op'.kind], op'.lis)
                  /\ op'.name \in {"start_event", "end_event"} =>
                         /\ Len(Broadcasts') = 1
                         /\ Broadcasts'[1][2] = op'.kind
             ELSE /\ exc' = "ValueError:kind"
                  /\ trace' = <<>>
                  /\ UNCHANGED <<_registered, stack, _ts, _depth, _duration, buffer>>
      ]_vars

\* start_event on a reserved kind that is not built in has raised, with
\* listeners registered for a built-in kind of the same namespace.
C13_Witness ==
    /\ op.name = "start_event"
    /\ op.kind = K_bogus
    /\ exc = "ValueError:kind"
    /\ trace = <<>>
    /\ _registered[K_compile] # <<>>

(***************************************************************************)
(* SpecRecorder: install_recorder around mark_event blocks, nested or one  *)
(* after the other, with a clock that advances.  A body may unregister the *)
(* listener its block yielded.                                             *)
(***************************************************************************)
NextRecorder ==
    \/ \E k \in InstallKinds : RecorderEnter(k, Recorders)
    \/ RecorderExit
    \/ \E k \in InstallKinds : MarkEnter(k, "None", 0, 0)
    \/ MarkExit(0)
    \/ \E k \in InstallKinds, l \in Installed : Unregister(k, l)
    \/ Raise
    \/ Catch
    \/ Tick

SpecRecorder == Init /\ [][NextRecorder]_vars

\* The statuses of the events of a buffer, in order.
Statuses(buf) == [i \in 1..Len(buf) |-> buf[i][2].status]

Alternating(buf) ==
    \A i \in 1..Len(buf) : buf[i][2].status = IF i % 2 = 1 THEN "START" ELSE "END"

Chronological(buf) == \A i, j \in 1..Len(buf) : i < j => buf[i][1] <= buf[j][1]

NumStatus(buf, st) == Len(SelectSeq(Statuses(buf), LAMBDA x : x = st))

\* The mark_event blocks of kind k that are open in stk.
OpenMarks(stk, k) == Cardinality({i \in MarkFrames(stk) : stk[i].kind = k})

(***************************************************************************)
(* C14 as stated: whenever the mark_event(k) blocks entered since a        *)
(* RecordingListener was installed for k have all ended, and the listener  *)
(* has been listed for k all along, its buffer alternates Start, End.      *)
(***************************************************************************)
C14_AsStated ==
    \A r \in Recorders : \A k \in RegKinds :
        ( /\ stack # <<>>
          /\ stack[1].lis = r
          /\ stack[1].kind = k
          /\ Count(r, _registered[k]) = 1
          /\ OpenMarks(stack, k) = 0 ) =>
            /\ Len(buffer[r]) % 2 = 0
            /\ Alternating(buffer[r])

(***************************************************************************)
(* C14: a RecordingListener listed once for k.  Entering a mark_event(k)   *)
(* block appends one Start entry to its buffer and leaving the block, by   *)
(* return or by exception, one End entry, each with the clock's reading    *)
(* and the event: n completed blocks leave n Start and n End entries, 2n   *)
(* in all.  The buffer only grows at its end, its times never decrease,    *)
(* and while the listener has been listed since it was installed the Start *)
(* entries outnumber the End entries by the blocks that are open.  Blocks  *)
(* entered one after the other keep the entries alternating Start, End.    *)
(***************************************************************************)
C14_TwoEntriesPerMark ==
    [][\A r \in Recorders :
          /\ r \notin Garbage => IsPrefix(buffer[r], buffer'[r])
          /\ Chronological(buffer'[r])
          /\ \A k \in RegKinds :
                /\ (op'.name = "mark_enter" /\ exc' = "None" /\ op'.kind = k
                        /\ Count(r, _registered[k]) = 1) =>
                      /\ Len(buffer'[r]) = Len(buffer[r]) + 1
                      /\ buffer'[r][Len(buffer'[r])][1] = time_time
                      /\ buffer'[r][Len(buffer'[r])][2] =
                             [kind |-> k, status |-> "START", data |-> "None",
                              exc_details |-> NoDetails]
                      /\ (OpenMarks(stack, k) = 0 /\ Alternating(buffer[r])
                              /\ Len(buffer[r]) % 2 = 0) =>
                             Alternating(buffer'[r])
                /\ (op'.name = "mark_exit" /\ Top.kind = k
                        /\ Count(r, _registered[k]) = 1) =>
                      /\ exc' = exc
                      /\ Len(buffer'[r]) = Len(buffer[r]) + 1
                      /\ buffer'[r][Len(buffer'[r])][1] = time_time
                      /\ buffer'[r][Len(buffer'[r])][2] =
                             [kind |-> k, status |-> "END", data |-> "None",
                              exc_details |-> ExcDetails(exc)]
                      /\ (OpenMarks(stack, k) = 1 /\ Alternating(buffer[r])
                              /\ Len(buffer[r]) % 2 = 1) =>
                             Alternating(buffer'[r])
                /\ (stack' # <<>> /\ stack'[1].lis = r /\ stack'[1].kind = k
                        /\ Count(r, _registered'[k]) = 1) =>
                      /\ NumStatus(buffer'[r], "START") - NumStatus(buffer'[r], "END")
                             = OpenMarks(stack', k)
                      /\ OpenMarks(stack', k) = 0 =>
                             Len(buffer'[r]) = 2 * NumStatus(buffer'[r], "START")
      ]_vars

\* Two mark_event blocks, one after the other and the second left by an
\* exception, have been recorded at three different times.
C14_Witness ==
    /\ op.name = "mark_exit"
    /\ Len(stack) = 1
    /\ \E r \in Recorders :
          /\ Top.lis = r
          /\ Count(r, _registered[Top.kind]) = 1
          /\ Statuses(buffer[r]) = <<"START", "END", "START", "END">>
          /\ buffer[r][1][1] < buffer[r][2][1]
          /\ buffer[r][2][1] < buffer[r][4][1]
          /\ buffer[r][4][2].exc_details = ExcDetails("E")

\* The event a broadcast entry of the trace stands for.
EventOf(e) == [kind |-> e[2], status |-> e[3], data |-> e[4], exc_details |-> e[5]]

(***************************************************************************)
(* C15 as stated: every End event the emission API broadcasts, that of an  *)
(* end_event call without exc_details included, carries a triple, so that  *)
(* is_failed returns a value on it, true exactly when the triple's first   *)
(* slot is None.                                                           *)
(***************************************************************************)
C15_AsStated ==
    \A i \in 1..Len(trace) :
        IsEndBroadcast(trace[i]) =>
            /\ Len(EventOf(trace[i]).exc_details) = 3
            /\ is_failed(EventOf(trace[i])).exc = "None"
            /\ is_failed(EventOf(trace[i])).val <=> (EventOf(trace[i]).exc_details[1] = "None")

(***************************************************************************)
(* Two threads.  broadcast's for loop is not atomic: between two of its    *)
(* steps another thread may run register or unregister, which change the   *)
(* list object the loop iterates, in place.  The loop's iterator is a      *)
(* position in that list.  it is the loop's state: the event, the next     *)
(* position, and for the record the listeners notified so far and those    *)
(* listed for the kind in every state since the loop began.                *)
(***************************************************************************)
\* A loop that looks, at every step, for the first entry of the list that it
\* has not notified yet.
iter_next_rescan(m, it) ==
    LET lst == m.reg[it.ev.kind]
        todo == {i \in 1..Len(lst) : \A j \in 1..Len(it.notified) : it.notified[j] # lst[i]}
    IN IF todo = {} THEN [m |-> m, it |-> [it EXCEPT !.st = "done"]]
       ELSE LET i == CHOOSE x \in todo : \A y \in todo : x <= y IN
            [m |-> notify(m, lst[i], it.ev, FALSE),
             it |-> [it EXCEPT !.pos = @ + 1, !.notified = Append(@, lst[i])]]

\* One step of `for listener in _registered[event.kind]: listener.notify(event)`
iter_next(m, it) ==
    LET lst == m.reg[it.ev.kind] IN
    IF it.pos > Len(lst) THEN [m |-> m, it |-> [it EXCEPT !.st = "done"]]
    ELSE [m |-> notify(m, lst[it.pos], it.ev, FALSE),
          it |-> [it EXCEPT !.pos = @ + 1, !.notified = Append(@, lst[it.pos])]]

\* The second thread calls start_event or end_event and reaches the loop.
ThreadBroadcast(kind, status) ==
    /\ iter.st = "idle"
    /\ LET e == Event(kind, status, "None", NoDetails) IN
          /\ e.exc = "None"
          /\ iter' = [st |-> "running", ev |-> e.val, pos |-> 1, notified |-> <<>>,
                      stayed |-> Range(_registered[e.val.kind])]
    /\ trace' = <<>>
    /\ op' = Call("thread_broadcast", kind, "none")
    /\ UNCHANGED <<_registered, stack, exc, _ts, _depth, _duration, buffer, now>>

\* The second thread runs one step of its loop.
ThreadNext ==
    /\ iter.st = "running"
    /\ LET r == iter_next(Cur, iter) IN
          /\ _registered' = r.m.reg
          /\ trace' = r.m.trace
          /\ iter' = r.it
    /\ op' = Call("thread_next", iter.ev.kind, "none")
    /\ UNCHANGED <<stack, exc, _ts, _depth, _duration, buffer, now>>

\* The second thread's broadcast returns.
ThreadReturn ==
    /\ iter.st = "done"
    /\ iter' = NoIter
    /\ trace' = <<>>
    /\ op' = Call("thread_return", iter.ev.kind, "none")
    /\ UNCHANGED <<_registered, stack, exc, _ts, _depth, _duration, buffer, now>>

\* The first thread calls register while the second is in its loop.
RacingRegister(kind, listener) ==
    /\ iter.st = "running"
    /\ exc = "None"
    /\ Entries < MaxReg
    /\ LET m == register(Cur, kind, listener) IN
          /\ _registered' = m.reg
          /\ trace' = m.trace
          /\ exc' = m.exc
          /\ iter' = [iter EXCEPT !.stayed = @ \cap Range(m.reg[iter.ev.kind])]
    /\ op' = Call("register", kind, listener)
    /\ UNCHANGED <<stack, _ts, _depth, _duration, buffer, now>>

\* The first thread calls unregister while the second is in its loop.
RacingUnregister(kind, listener) ==
    /\ iter.st = "running"
    /\ exc = "None"
    /\ LET m == unregister(Cur, kind, listener) IN
          /\ _registered' = m.reg
          /\ trace' = m.trace
          /\ exc' = m.exc
          /\ iter' = [iter EXCEPT !.stayed = @ \cap Range(m.reg[iter.ev.kind])]
    /\ op' = Call("unregister", kind, listener)
    /\ UNCHANGED <<stack, _ts, _depth, _duration, buffer, now>>

Statuses2 == {"START", "END"}

(***************************************************************************)
(* SpecThreads: one thread registers and unregisters custom listeners, a   *)
(* second thread broadcasts.                                               *)
(***************************************************************************)
NextThreads ==
    \/ \E k \in InstallKinds, l \in Customs : iter.st = "idle" /\ Register(k, l)
    \/ \E k \in InstallKinds, l \in Customs : iter.st = "idle" /\ Unregister(k, l)
    \/ \E k \in InstallKinds, st \in Statuses2 : ThreadBroadcast(k, st)
    \/ ThreadNext
    \/ ThreadReturn
    \/ \E k \in InstallKinds, l \in Customs : RacingRegister(k, l)
    \/ \E k \in InstallKinds, l \in Customs : RacingUnregister(k, l)
    \/ Catch

SpecThreads == Init /\ [][NextThreads]_vars

Running == iter.st = "running"

(***************************************************************************)
(* C16: nothing keeps register and unregister of one thread out of a       *)
(* broadcast another thread has in progress.  They change the list at      *)
(* once and leave the loop's position as it is; the loop notifies the      *)
(* entry that is at its position in the list as it is now, and ends when   *)
(* its position is beyond the list's end.  So an unregister of an entry    *)
(* the loop has passed moves the entry the loop would notify next to a     *)
(* position the loop has passed: the broadcast ends without notifying a    *)
(* listener that was listed for the kind all along.                        *)
(***************************************************************************)
C16_LoopReadsTheLiveList ==
    [][/\ Running => Len(iter.notified) = iter.pos - 1
       /\ (Running /\ op'.name = "thread_next") =>
             LET lst == _registered[iter.ev.kind] IN
             IF iter.pos <= Len(lst)
             THEN /\ iter'.st = "running"
                  /\ iter'.pos = iter.pos + 1
                  /\ iter'.notified = Append(iter.notified, lst[iter.pos])
                  /\ Notified' = <<lst[iter.pos]>>
                  /\ _registered' = _registered
             ELSE /\ iter'.st = "done"
                  /\ iter'.notified = iter.notified
                  /\ trace' = <<>>
       /\ (Running /\ op'.name \in {"register", "unregister"}) =>
             /\ iter'.st = "running"
             /\ iter'.pos = iter.pos
             /\ iter'.notified = iter.notified
             /\ (op'.name = "register" /\ exc' = "None") =>
                    _registered'[op'.kind] = Append(_registered[op'.kind], op'.lis)
             /\ (op'.name = "unregister" /\ exc' = "None") =>
                    LET old == _registered[op'.kind]
                        j == IndexFrom(old, op'.lis, 1)
                    IN /\ _registered'[op'.kind] = DeleteAt(old, j)
                       /\ (op'.kind = iter.ev.kind /\ j < iter.pos /\ iter.pos <= Len(old)) =>
                              /\ _registered'[op'.kind][iter.pos - 1] = old[iter.pos]
                              /\ Len(iter'.notified) = iter.pos - 1
      ]_vars

\* A broadcast has ended without notifying a listener that was listed for its
\* kind in every state since the broadcast began.
C16_Witness ==
    /\ iter.st = "done"
    /\ \E l \in iter.stayed :
          /\ l \notin Range(iter.notified)
          /\ l \in Range(_registered[iter.ev.kind])

(***************************************************************************)
(* SpecReentrant: broadcasts to custom listeners, some of which unregister *)
(* themselves in their callbacks.                                          *)
(***************************************************************************)
NextReentrant ==
    \/ \E k \in InstallKinds, l \in Customs \cup Leavers : Register(k, l)
    \/ \E k \in InstallKinds, l \in Customs \cup Leavers : Unregister(k, l)
    \/ \E k \in InstallKinds : StartEvent(k, "None", 0)
    \/ \E k \in InstallKinds : EndEvent(k, "None", None3, 0)
    \/ Catch

SpecReentrant == Init /\ [][NextReentrant]_vars

(***************************************************************************)
(* C17 as stated: when a listener's callback unregisters the listener for  *)
(* the kind being broadcast, every listener that is listed once for the    *)
(* kind both before and after the broadcast is notified exactly once by    *)
(* it, and these notifications follow the order of the list.               *)
(***************************************************************************)
C17_AsStated ==
    [][(op'.name \in {"start_event", "end_event"} /\ exc' = "None") =>
          LET old == _registered[op'.kind]
              new == _registered'[op'.kind]
              kept == {l \in Range(old) : Count(l, old) = 1 /\ Count(l, new) = 1}
          IN /\ \A l \in kept : Count(l, Notified') = 1
             /\ SelectSeq(Notified', LAMBDA l : l \in kept)
                    = SelectSeq(old, LAMBDA l : l \in kept)
      ]_vars

\* The Start notifications of listener l in the last call.
StartsOf(l) == SelectSeq(trace, LAMBDA e : IsNotify(e) /\ e[2] = l /\ e[3] = "START")

(***************************************************************************)
(* C18: a TimingListener under any mix of start_event, end_event and       *)
(* mark_event.  Every call changes its depth by the Starts it was notified *)
(* of less the Ends, from zero at its creation.  Its duration changes in a *)
(* call only if an End of that call brought the depth to zero, and then    *)
(* the start timestamp was set and the duration stored is the clock less   *)
(* that timestamp: the subtraction never meets a timestamp that is not     *)
(* set.  A listener that has seen no Start has no timestamp, a depth of    *)
(* zero or less, and no duration.                                          *)
(***************************************************************************)
C18_DepthIsStartsLessEnds ==
    [][\A l \in Timers :
          /\ exc' # "TypeError:_ts"
          /\ _depth'[l] >= 1 => _ts'[l] # <<>>
          /\ _ts'[l] = <<>> => (_depth'[l] <= 0 /\ _duration'[l] = <<>>)
          /\ l \notin Garbage =>
                /\ _depth'[l] = _depth[l] + Len(StartsOf(l)') - Len(EndsOf(l)')
                /\ _duration'[l] # _duration[l] =>
                      /\ Len(EndsOf(l)') >= 1
                      /\ _depth[l] + Len(StartsOf(l)') >= 1
                      /\ _depth'[l] <= 0
                      /\ _ts'[l] # <<>>
                      /\ _duration'[l] = <<now - _ts'[l][1]>>
                /\ (Len(EndsOf(l)') >= 1 /\ _depth'[l] # 0 /\ _depth[l] <= 0) =>
                      _duration'[l] = _duration[l]
      ]_vars

\* end_event has notified a listener that has seen no Start: its depth is
\* below zero and it has neither a timestamp nor a duration.
C18_Witness ==
    /\ op.name = "end_event"
    /\ exc = "None"
    /\ \E l \in Timers :
          /\ EndsOf(l) # <<>>
          /\ _ts[l] = <<>>
          /\ _depth[l] < 0
          /\ _duration[l] = <<>>

\* The last call gave listener l, listed once, the End that closed a cycle.
ClosesCycle(l) == _depth[l] = 1 /\ StartsOf(l)' = <<>> /\ Len(EndsOf(l)') = 1

(***************************************************************************)
(* C19: a TimingListener's start timestamp is set by the first Start it    *)
(* sees, to the clock at that Start, and no call changes or clears it      *)
(* afterwards.  Every End that brings the depth back to zero stores the    *)
(* clock less that timestamp, in place of the duration stored before: the  *)
(* time from the very first Start to the latest End.                       *)
(***************************************************************************)
C19_TimestampOfFirstStart ==
    [][\A l \in Timers : l \notin Garbage =>
          /\ _ts[l] # <<>> => _ts'[l] = _ts[l]
          /\ (_ts[l] = <<>> /\ StartsOf(l)' # <<>>) => _ts'[l] = <<now>>
          /\ (_ts[l] = <<>> /\ StartsOf(l)' = <<>>) => _ts'[l] = <<>>
          /\ ClosesCycle(l) =>
                /\ _ts[l] # <<>>
                /\ _depth'[l] = 0
                /\ _duration'[l] = <<now - _ts[l][1]>>
      ]_vars

\* An End has closed a cycle of a listener whose first Start was two readings
\* of the clock ago: the duration is the time since that Start.
C19_Witness ==
    /\ op.name \in {"end_event", "mark_exit"}
    /\ \E l \in Timers :
          /\ Len(EndsOf(l)) = 1
          /\ _depth[l] = 0
          /\ _ts[l] = <<0>>
          /\ now = 2
          /\ _duration[l] = <<2>>

Emissions == {"start_event", "end_event", "mark_enter", "mark_exit"}

(***************************************************************************)
(* C20: kinds are isolated.  register(k, L) and unregister(k, L) leave the *)
(* list of every other kind as it was.  start_event, end_event and         *)
(* mark_event of kind k broadcast events of kind k only, notify only       *)
(* listeners that are in k's list, so none that is listed for other kinds  *)
(* only, and leave every kind's list as it was.                            *)
(***************************************************************************)
C20_KindsAreIsolated ==
    [][/\ op'.name \in {"register", "unregister"} =>
             \A k \in RegKinds \ {op'.kind} : _registered'[k] = _registered[k]
       /\ op'.name \in Emissions =>
             /\ _registered' = _registered
             /\ \A i \in 1..Len(Broadcasts') : Broadcasts'[i][2] = op'.kind
             /\ \A i \in 1..Len(Notified') :
                   /\ op'.kind \in RegKinds
                   /\ Notified'[i] \in Range(_registered[op'.kind])
             /\ \A l \in Listeners :
                   (op'.kind \notin RegKinds \/ l \notin Range(_registered[op'.kind])) =>
                       Count(l, Notified') = 0
      ]_vars

\* A broadcast of one kind has notified that kind's listeners, while another
\* kind has a listener of its own, which was not notified.
C20_Witness ==
    /\ op.name \in Emissions
    /\ op.kind = K_user
    /\ exc = "None"
    /\ Notified # <<>>
    /\ \E l \in Range(_registered[K_compile]) :
          /\ l \notin Range(_registered[K_user])
          /\ l \notin Range(Notified)

====
